---- MODULE Spec2Model ----
(***************************************************************************)
(* Model of the resilient request and connection layer of the binance      *)
(* client: BinanceRest._makeRequest / calculateDrift (src/lib/rest.js),    *)
(* the Socket connection manager with its heartbeat and the user-data      *)
(* listen-key object (src/unnamed/part_000, first module, lines 1-256, and *)
(* src/lib/ws.js), and the BinanceWS subscription methods with the message *)
(* handler they register.                                                  *)
(***************************************************************************)
EXTENDS Integers, Sequences, FiniteSets, TLC

(***************************************************************************)
(* Bounds of the model.                                                    *)
(***************************************************************************)
\* number of _makeRequest call records (caller requests and the time
\* requests issued by calculateDrift)
MaxCalls == 4
\* number of WebSocket objects one manager creates
MaxWS == 3
\* number of retry operations (one per attemptConnect) one manager creates
MaxOps == 2
\* number of keep-alive renewal calls that are counted
MaxKeepAlive == 2
\* number of heartbeat checks since the last _onConnected that are counted
MaxChecks == 2
\* retryOptions.retries of a manager whose policy is bounded
MaxRetries == 1
\* the largest value of the local clock
MaxClock == 1
\* the largest server time a time request answers
MaxServerTime == 2
\* number of stream names in one combined subscription
MaxStreams == 2
\* number of inbound frames one message handler is followed through
MaxFrames == 2
MaxCalibrations == 2

VARIABLES
  handleDrift,   \* BinanceRest.handleDrift (constructor option)
  calls,         \* one record per _makeRequest call chain
  build,         \* which Socket source is running: "hb" is the module with
                 \* the heartbeat (src/unnamed/part_000 lines 1-256), "lib"
                 \* is src/lib/ws.js, "old" is the second module of
                 \* src/unnamed/part_000 (lines 258-510)
  path,          \* Socket._path: "literal" (a stream name) or "auth" (the
                 \* object built by onUserData)
  forever,       \* Socket._options.retryOptions.forever
  ws,            \* Socket._ws: the id of a transport, 0 for null
  nws,           \* WebSocket objects created so far
  tr,            \* the WebSocket objects and their listeners
  nops,          \* retry operations created so far
  ops,           \* the retry operations
  pendSync,      \* _getPath() promises that settle in the microtask queue
  pendAuth,      \* _getPath() promises that wait for startUserDataStream
  callerTick,    \* the caller's synchronous code is still running
  handed,        \* the promise of a connect() has resolved with the manager:
                 \* the caller of _setupWebSocket holds the Socket
  isAlive,       \* Socket.isAlive: "undefined", "true" or "false"
  hbCur,         \* Socket.testHeartTimeout names a pending timer
  hbLeaked,      \* pending heartbeat timers that no handle names any more
  kaCur,         \* intervalId of the listen-key object names a live interval
  kaLeaked,      \* live keep-alive intervals that intervalId no longer names
  kaCalls,       \* keepAliveUserDataStream calls issued (counted to a bound)
  closedByCaller,\* history: the caller's last call was (force)disconnect
  checks,        \* history: heartbeat checks since the last _onConnected
  heard,         \* history: frames since the last check or _onConnected:
                 \* "none", "old" (only on replaced transports), "cur"
  act,           \* history: the handler that ran last, and what it saw
  emitted,       \* history: the events the last handler emitted
  opened,        \* history: the last handler created a WebSocket
  beautify,      \* BinanceWS._options.beautify
  isCombinedPath,\* Socket._isCombinedPath of the subscription's manager
  names,         \* the stream names of the subscription, <<>> before it
  target,        \* the URL _getPath() resolves for the subscription's manager
  nsockets,      \* Socket objects the subscription constructed and connected
  frames,        \* the inbound frames handed to the message handler so far
  events,        \* the calls of the subscriber's event handler so far
  thrown,        \* the message handler threw on the last frame
  recvWindow,    \* BinanceRest.recvWindow: "false" or the configured value
  now,           \* Date.now()
  drift,         \* BinanceRest._drift
  systemTime,    \* systemTime of each calculateDrift() in flight, in the
                 \* order in which they were called
  serverTime,    \* history: response.serverTime of the calculateDrift()
                 \* that completed in the last step, -1 when none did
  computed,      \* history: <<the value the calculateDrift() that completed
                 \* last computed>>, <<>> before one and after endTimeSync()
  syncInterval,  \* BinanceRest._syncInterval names a live interval
  ended,         \* history: endTimeSync() ran and the caller has called
                 \* neither startTimeSync() nor calculateDrift() since
  retryOn,       \* the place in systemTime of the calculateDrift() the
                 \* clock-skew branch waits for, 0 before the branch is
                 \* taken, -1 once that call has ended
  query,         \* the query object of the request that is followed
  security,      \* its security argument
  optionsUrl,    \* options.url of its last dispatch, <<>> before the first
  tries,         \* its attempt argument
  generated      \* history: the last dispatch wrote query.timestamp itself

restVars == <<handleDrift, calls>>

sockVars == <<build, path, forever, ws, nws, tr, nops, ops, pendSync, pendAuth,
              callerTick, handed, isAlive, hbCur, hbLeaked, kaCur, kaLeaked, kaCalls,
              closedByCaller, checks, heard, act, emitted, opened>>

wsVars == <<beautify, isCombinedPath, names, target, nsockets, frames, events,
            thrown>>

vars == <<handleDrift, calls, build, path, forever, ws, nws, tr, nops, ops, pendSync,
          pendAuth, callerTick, handed, isAlive, hbCur, hbLeaked, kaCur, kaLeaked,
          kaCalls, closedByCaller, checks, heard, act, emitted, opened,
          beautify, isCombinedPath, names, target, nsockets, frames, events,
          thrown, recvWindow, now, drift, systemTime, serverTime, computed,
          syncInterval, ended, retryOn, query, security, optionsUrl, tries,
          generated>>

signVars == <<recvWindow, now, drift, systemTime, serverTime, computed,
              syncInterval, ended, retryOn, query, security, optionsUrl, tries,
              generated>>

\* the places of the calculateDrift() calls that can be in flight together
CalIds == 1..MaxCalibrations

\* no request followed and no calibration made
SignIdle ==
  /\ recvWindow = "false"
  /\ now = 0
  /\ drift = 0
  /\ systemTime = <<>>
  /\ serverTime = -1
  /\ computed = <<>>
  /\ syncInterval = FALSE
  /\ ended = FALSE
  /\ retryOn = 0
  /\ query = <<>>
  /\ security = "none"
  /\ optionsUrl = <<>>
  /\ tries = 0
  /\ generated = FALSE

\* no subscription made through BinanceWS
WsIdle ==
  /\ beautify = FALSE
  /\ isCombinedPath = FALSE
  /\ names = <<>>
  /\ target = <<>>
  /\ nsockets = 0
  /\ frames = <<>>
  /\ events = <<>>
  /\ thrown = FALSE

CallIds == 1..MaxCalls

\* what request() hands to the callback of action():
\*   ok        2xx
\*   skew      HTTP 400 with payload.code = -1021
\*   bad_req   HTTP 400 with another payload code
\*   http_err  another status outside [200,299], payload.code = -1021 or not
\*   net_err   err set (connection error, timeout)
Responses == {"ok", "skew", "bad_req", "http_err", "net_err"}

\* response.statusCode === 400 && payload.code === -1021
IsClockSkewStatusAlone(r) == r \in {"skew", "bad_req"}

IsClockSkew(r) == r = "skew"

FreeCall ==
  [kind |-> "free", mode |-> "none", st |-> "free", attempt |-> 0, sent |-> 0,
   calibs |-> 0, outcomes |-> 0, result |-> "none", parent |-> 0,
   r1 |-> "none", r2 |-> "none", got |-> {}]

\* a fresh _makeRequest(query, callback, route, security, method) with the
\* default attempt = 0; its request() is dispatched at once
NewCall(k, m, p) ==
  [FreeCall EXCEPT !.kind = k, !.mode = m, !.st = "inflight", !.sent = 1,
                   !.parent = p]

\* the condition of the clock-skew branch, the (status, code) test apart
RetryAllowedNoAttemptTest(attempt) == handleDrift

RetryAllowed(attempt) == handleDrift /\ attempt = 0

\* payload = JSON.parse(body), or body: request() hands a body with every
\* HTTP response and none with an error
PayloadDefined(r) == r # "net_err"

\* what the caller is handed: in callback mode cb(err, payload), where err is
\* the transport error or new Error(`Response code ${statusCode}`); in
\* promise mode the value of resolve(payload), reject(payload) or reject(err)
SurfacedAlike(m, r) ==
  IF r = "ok" THEN {"payload"}
  ELSE (IF r = "net_err" THEN {"error"} ELSE {"status"})
       \cup (IF PayloadDefined(r) THEN {"payload"} ELSE {})

Surfaced(m, r) ==
  IF r = "ok" THEN {"payload"}
  ELSE IF m = "cb"
       THEN (IF r = "net_err" THEN {"error"} ELSE {"status"})
            \cup (IF PayloadDefined(r) THEN {"payload"} ELSE {})
       ELSE IF PayloadDefined(r) THEN {"payload"}
            ELSE IF r = "net_err" THEN {"error"} ELSE {"status"}

\* the response is recorded against the attempt it answers
Record(c, r) ==
  IF calls[c].attempt = 0 THEN [calls[c] EXCEPT !.r1 = r]
                          ELSE [calls[c] EXCEPT !.r2 = r]

\* a client with or without drift correction and no call issued yet, and no
\* manager at work
InitRest ==
  /\ handleDrift \in BOOLEAN
  /\ calls = [c \in CallIds |-> FreeCall]
  /\ build = "hb"
  /\ path = "literal"
  /\ forever = TRUE
  /\ ws = 0
  /\ nws = 0
  /\ tr = [w \in 1..MaxWS |-> [st |-> "none", op |-> 0, url |-> "none",
                                errL |-> FALSE, openL |-> FALSE, closeL |-> 0,
                                msgL |-> 0, hbL |-> FALSE]]
  /\ nops = 0
  /\ ops = [o \in 1..MaxOps |-> [url |-> "none", timer |-> FALSE, left |-> 0,
                                  promise |-> "none"]]
  /\ pendSync = 0
  /\ pendAuth = 0
  /\ callerTick = FALSE
  /\ handed = FALSE
  /\ isAlive = "undefined"
  /\ hbCur = FALSE
  /\ hbLeaked = 0
  /\ kaCur = FALSE
  /\ kaLeaked = 0
  /\ kaCalls = 0
  /\ closedByCaller = FALSE
  /\ checks = 0
  /\ heard = "none"
  /\ act = [h |-> "init", heard |-> "none", n |-> 0, cur |-> FALSE]
  /\ emitted = {}
  /\ opened = FALSE
  /\ WsIdle
  /\ SignIdle

\* a caller invokes an endpoint wrapper, with a callback or without
MakeRequest(c, m) ==
  /\ calls[c].st = "free"
  /\ \A d \in CallIds : d < c => calls[d].st # "free"
  /\ calls' = [calls EXCEPT ![c] = NewCall("user", m, 0)]
  /\ UNCHANGED <<handleDrift, sockVars, wsVars, signVars>>

\* request() answers 400 / -1021 and the branch is taken: calculateDrift()
\* issues this.time(), a _makeRequest of its own in promise mode; the
\* re-execution hangs on its .then
RespondSkewRetry(c, r) ==
  /\ calls[c].st = "inflight"
  /\ IsClockSkew(r)
  /\ RetryAllowed(calls[c].attempt)
  /\ \E t \in CallIds :
       /\ calls[t].st = "free"
       /\ \A d \in CallIds : d < t => calls[d].st # "free"
       /\ calls' = [calls EXCEPT
            ![c] = [Record(c, r) EXCEPT !.st = "calibrating",
                                             !.calibs = @ + 1],
            ![t] = NewCall("time", "promise", c)]
  /\ UNCHANGED <<handleDrift, sockVars, wsVars, signVars>>

\* every other answer reaches cb exactly once.  When the call is the time
\* request of a calibration that a clock-skew retry waits on, a fulfilled
\* time() runs the .then chain: the drift is stored and the waiting request
\* is re-executed with ++attempt; a rejected time() rejects calculateDrift(),
\* whose promise has no rejection handler.
RespondDeliver(c, r) ==
  /\ calls[c].st = "inflight"
  /\ ~(IsClockSkew(r) /\ RetryAllowed(calls[c].attempt))
  /\ LET p    == calls[c].parent
         done == [Record(c, r) EXCEPT !.st = "done", !.outcomes = @ + 1,
                     !.result = IF r = "ok" THEN "ok" ELSE "err",
                     !.got = Surfaced(calls[c].mode, r)]
     IN  calls' =
           IF p # 0 /\ r = "ok"
           THEN [calls EXCEPT ![c] = done,
                   ![p] = [@ EXCEPT !.st = "inflight", !.attempt = @ + 1,
                                    !.sent = @ + 1]]
           ELSE [calls EXCEPT ![c] = done]
  /\ UNCHANGED <<handleDrift, sockVars, wsVars, signVars>>

(***************************************************************************)
(* Request executor: claims.                                               *)
(***************************************************************************)
Started(c) == calls[c].st # "free"

\* the time requests issued by the calibrations that call c triggered
Calibrations(c) == {t \in CallIds : calls[t].kind = "time" /\ calls[t].parent = c}

\* a request of the call, or of a calibration it waits on, is still in flight
RECURSIVE Pending(_)
Pending(c) ==
  \/ calls[c].st = "inflight"
  \/ /\ calls[c].st = "calibrating"
     /\ \E t \in Calibrations(c) : Pending(t)

\* C1: with drift correction enabled, a first attempt answered 400 / -1021
\* triggers exactly one calibration, and exactly one re-execution once that
\* calibration has completed; a re-executed attempt answered 400 / -1021 is
\* surfaced as an error with no further calibration or re-execution; no call
\* ever issues more than 2 attempts.
C1_OneCalibrationOneRetry ==
  \A c \in CallIds :
    /\ calls[c].sent <= 2
    /\ calls[c].calibs <= 1
    /\ Cardinality(Calibrations(c)) = calls[c].calibs
    /\ (handleDrift /\ calls[c].r1 = "skew") =>
         /\ calls[c].calibs = 1
         /\ \A t \in Calibrations(c) :
              (calls[t].result = "ok") <=> (calls[c].sent = 2)
    /\ (calls[c].sent = 2) => (handleDrift /\ calls[c].r1 = "skew")
    /\ (calls[c].r2 = "skew") =>
         /\ calls[c].st = "done"
         /\ calls[c].result = "err"
         /\ calls[c].outcomes = 1
         /\ calls[c].calibs = 1
         /\ calls[c].sent = 2

C1_Witness ==
  \E c \in CallIds :
    /\ handleDrift
    /\ calls[c].kind = "user"
    /\ calls[c].r1 = "skew"
    /\ calls[c].r2 = "skew"
    /\ calls[c].st = "done"

\* C10: once every HTTP call issued for a request (its attempts and the time
\* request of a calibration it waits on) has completed, the request has
\* delivered exactly one outcome to its caller.
C10_EveryCallSettles ==
  \A c \in CallIds : (Started(c) /\ ~Pending(c)) => calls[c].outcomes = 1

\* C11: a request is re-executed only after a first attempt answered
\* 400 / -1021 with drift correction enabled; with any other first answer
\* (transport error, another status or code), with drift correction disabled,
\* or on an attempt that is itself a re-execution, no calibration is
\* triggered and the request goes out once: the outcome reaches the caller
\* with no further request.
C11_OnlySkewRetried ==
  \A c \in CallIds :
    /\ (calls[c].sent > 1 \/ calls[c].calibs > 0) =>
         (handleDrift /\ calls[c].r1 = "skew")
    /\ (calls[c].r1 \notin {"none", "skew"} \/ (~handleDrift /\ calls[c].r1 # "none")) =>
         /\ calls[c].sent = 1
         /\ calls[c].calibs = 0
         /\ Calibrations(c) = {}
         /\ calls[c].st = "done"
         /\ calls[c].outcomes = 1
    /\ (calls[c].r2 # "none") =>
         /\ calls[c].sent = 2
         /\ calls[c].calibs = 1
         /\ calls[c].st = "done"

C11_Witness ==
  /\ ~handleDrift
  /\ \E c, d \in CallIds :
       /\ calls[c].r1 = "skew" /\ calls[c].sent = 1 /\ calls[c].result = "err"
       /\ calls[d].r1 = "bad_req" /\ calls[d].sent = 1 /\ calls[d].result = "err"

\* the response that ended the call
LastResponse(c) == IF calls[c].r2 # "none" THEN calls[c].r2 ELSE calls[c].r1

\* C23 as stated: a call that ended on a status outside [200,299] has handed
\* its caller both the HTTP status and the parsed payload, in callback mode
\* and in promise mode; a call that ended on a transport failure has handed
\* over the transport error.
C23_ErrorCarriesStatusAndPayload ==
  \A c \in CallIds :
    (calls[c].st = "done" /\ calls[c].result = "err") =>
      IF LastResponse(c) = "net_err"
      THEN "error" \in calls[c].got
      ELSE {"status", "payload"} \subseteq calls[c].got

\* C23 as amended: in callback mode a call that ended on a status outside
\* [200,299] has handed over an error with the HTTP status and the parsed
\* payload; in promise mode it has rejected with the parsed payload alone,
\* which does not carry the HTTP status; a call that ended on a transport
\* failure, where no payload was parsed, has handed over the transport error
\* in both modes.
C23_PromiseRejectsWithPayloadAlone ==
  \A c \in CallIds :
    (calls[c].st = "done" /\ calls[c].result = "err") =>
      IF LastResponse(c) = "net_err"
      THEN calls[c].got = {"error"}
      ELSE IF calls[c].mode = "cb"
           THEN calls[c].got = {"status", "payload"}
           ELSE calls[c].got = {"payload"}

C23_Witness ==
  \E c, d \in CallIds :
    /\ calls[c].mode = "promise" /\ calls[c].kind = "user"
    /\ calls[c].st = "done" /\ calls[c].r1 = "http_err"
    /\ calls[c].got = {"payload"}
    /\ calls[d].mode = "cb"
    /\ calls[d].st = "done" /\ calls[d].r1 = "http_err"
    /\ calls[d].got = {"status", "payload"}

(***************************************************************************)
(* BinanceRest: what one request is built from.  The query object, the     *)
(* URL of each dispatch and its signature, the local clock and the drift   *)
(* that calculateDrift stores.                                             *)
(***************************************************************************)
\* Number.parseInt((Date.now() - systemTime) / 2): the half of the round
\* trip, cut to an integer towards zero
TransitTimeWholeTrip(d) == d

TransitTime(d) == IF d >= 0 THEN d \div 2 ELSE 0 - ((0 - d) \div 2)

\* query[k] = v: a member the object has keeps its place, a new one goes
\* last
SetKey(q, k, v) ==
  IF \E i \in 1..Len(q) : q[i].k = k
  THEN [i \in 1..Len(q) |-> IF q[i].k = k THEN [k |-> k, v |-> v] ELSE q[i]]
  ELSE Append(q, [k |-> k, v |-> v])

HasKey(q, k) == \E i \in 1..Len(q) : q[i].k = k

\* qs.stringify(query): key=value of each member in the object's order,
\* joined with '&'
RECURSIVE Stringify(_)
Stringify(q) ==
  IF Len(q) = 0 THEN <<>>
  ELSE IF Len(q) = 1 THEN <<q[1].k, "=", q[1].v>>
  ELSE <<q[1].k, "=", q[1].v, "&">> \o Stringify(Tail(q))

\* crypto.createHmac('sha256', this.secret).update(queryString).digest('hex')
Sign(text) == <<"hmac(">> \o text \o <<")">>

\* the text _makeRequest hands to _sign: the string it appended to the URL
SignInputBeforeRecvWindow(queryString, q) == Stringify(q)

SignInput(queryString, q) == queryString

\* _setTimestamp(query); a timestamp the caller preset is kept
SetTimestamp(q) ==
  IF HasKey(q, "timestamp") THEN q
  ELSE SetKey(q, "timestamp", ToString(now + drift))

\* _makeRequest up to the dispatch: the query object as it leaves, and
\* options.url
BuildRequest(q, sec) ==
  IF sec = "SIGNED"
  THEN LET q1 == IF recvWindow # "false"
                 THEN SetKey(q, "recvWindow", recvWindow) ELSE q
           queryString == Stringify(q1)
       IN  [query |-> q1,
            url |-> <<"https://api.binance.com/", "route", "?">>
                    \o queryString
                    \o <<"&signature=">> \o Sign(SignInput(queryString, q))]
  ELSE [query |-> q,
        url |-> <<"https://api.binance.com/", "route", "?">> \o Stringify(q)]

\* the query objects a caller passes to an endpoint method
CallerQueries ==
  { <<[k |-> "symbol", v |-> "BNBBTC"]>>,
    <<[k |-> "recvWindow", v |-> "1"], [k |-> "symbol", v |-> "BNBBTC"]>>,
    <<[k |-> "timestamp", v |-> "7"], [k |-> "symbol", v |-> "BNBBTC"]>> }

\* the drift read when the clock-skew branch rewrites query.timestamp: the
\* .then runs after the .then of calculateDrift() has stored its value
RetryDriftOfFirstAttempt(before, after) == before

RetryDrift(before, after) == after

\* this._drift = ... in the .then of calculateDrift(): an unconditional store
DriftStoredOnceIdle(stored, value, others) ==
  IF others THEN stored ELSE value

DriftStored(stored, value, others) == value

\* const systemTime = Date.now(); this.time(): one more call in flight
HasFreeCal == Len(systemTime) < MaxCalibrations

NextCal == Len(systemTime) + 1

Calibrating == Append(systemTime, now)

\* the call at place k has ended: the calls in flight without it, and the
\* place of the call the clock-skew branch waits for among them
Remove(q, k) == SubSeq(q, 1, k - 1) \o SubSeq(q, k + 1, Len(q))

RetryOnWithout(k) ==
  IF retryOn = k THEN -1 ELSE IF retryOn > k THEN retryOn - 1 ELSE retryOn

\* Date.now() advances
Tick ==
  /\ now < MaxClock
  /\ now' = now + 1
  /\ serverTime' = -1
  /\ UNCHANGED <<recvWindow, drift, systemTime, computed, syncInterval, ended,
                 retryOn, query, security, optionsUrl, tries, generated,
                 restVars, sockVars, wsVars>>

\* the caller calls calculateDrift(): systemTime = Date.now(), then
\* this.time()
CalculateDrift ==
  /\ HasFreeCal
  /\ systemTime' = Calibrating
  /\ serverTime' = -1
  /\ ended' = FALSE
  /\ UNCHANGED <<recvWindow, now, drift, computed, syncInterval, retryOn,
                 query, security, optionsUrl, tries, generated, restVars,
                 sockVars, wsVars>>

\* startTimeSync(): endTimeSync() when an interval is running, then
\* calculateDrift() and a new interval
StartTimeSync ==
  /\ HasFreeCal
  /\ drift' = IF syncInterval THEN 0 ELSE drift
  /\ computed' = IF syncInterval THEN <<>> ELSE computed
  /\ systemTime' = Calibrating
  /\ syncInterval' = TRUE
  /\ serverTime' = -1
  /\ ended' = FALSE
  /\ UNCHANGED <<recvWindow, now, retryOn, query, security, optionsUrl, tries,
                 generated, restVars, sockVars, wsVars>>

\* the interval of startTimeSync() fires: calculateDrift()
SyncTick ==
  /\ syncInterval
  /\ HasFreeCal
  /\ systemTime' = Calibrating
  /\ serverTime' = -1
  /\ UNCHANGED <<recvWindow, now, drift, computed, syncInterval, ended,
                 retryOn, query, security, optionsUrl, tries, generated,
                 restVars, sockVars, wsVars>>

\* endTimeSync(): clearInterval, _drift = 0, _syncInterval = 0
EndTimeSync ==
  /\ drift' = 0
  /\ syncInterval' = FALSE
  /\ computed' = <<>>
  /\ serverTime' = -1
  /\ ended' = TRUE
  /\ UNCHANGED <<recvWindow, now, systemTime, retryOn, query, security,
                 optionsUrl, tries, generated, restVars, sockVars, wsVars>>

\* an endpoint method is called: the SIGNED ones run _setTimestamp(query),
\* then _makeRequest builds and dispatches the first attempt
CallEndpoint(q, sec) ==
  /\ optionsUrl = <<>>
  /\ LET q1 == IF sec = "SIGNED" THEN SetTimestamp(q) ELSE q
         b  == BuildRequest(q1, sec)
     IN  /\ query' = b.query
         /\ optionsUrl' = b.url
         /\ generated' = (sec = "SIGNED" /\ ~HasKey(q, "timestamp"))
  /\ security' = sec
  /\ tries' = 0
  /\ serverTime' = -1
  /\ UNCHANGED <<recvWindow, now, drift, systemTime, computed, syncInterval,
                 ended, retryOn, restVars, sockVars, wsVars>>

\* the first attempt is answered 400 with code -1021 and handleDrift is on:
\* the clock-skew branch calls calculateDrift() and waits for it
SkewResponse ==
  /\ optionsUrl # <<>>
  /\ RetryAllowed(tries)
  /\ retryOn = 0
  /\ HasFreeCal
  /\ systemTime' = Calibrating
  /\ retryOn' = NextCal
  /\ serverTime' = -1
  /\ UNCHANGED <<recvWindow, now, drift, computed, syncInterval, ended, query,
                 security, optionsUrl, tries, generated, restVars, sockVars,
                 wsVars>>

\* time() of the call k is fulfilled with response.serverTime = s: the .then
\* of calculateDrift() stores the drift; when k is the call the clock-skew
\* branch waits for, its .then follows in the same turn:
\* query.timestamp = Date.now() + this._drift and _makeRequest with ++attempt
TimeResponse(k, s) ==
  /\ k <= Len(systemTime)
  /\ LET value == s - (systemTime[k] + TransitTime(now - systemTime[k]))
         others == Len(systemTime) > 1
     IN  /\ drift' = DriftStored(drift, value, others)
         /\ computed' = <<value>>
  /\ serverTime' = s
  /\ systemTime' = Remove(systemTime, k)
  /\ retryOn' = RetryOnWithout(k)
  /\ IF k = retryOn
     THEN LET t == ToString(now + RetryDrift(drift, drift'))
              b == BuildRequest(SetKey(query, "timestamp", t), security)
          IN  /\ query' = b.query
              /\ optionsUrl' = b.url
              /\ generated' = TRUE
              /\ tries' = tries + 1
     ELSE UNCHANGED <<query, optionsUrl, generated, tries>>
  /\ UNCHANGED <<recvWindow, now, syncInterval, ended, security, restVars,
                 sockVars, wsVars>>

\* time() of the call k is rejected: no .then of calculateDrift() runs, and
\* neither does the .then of the clock-skew branch when it waits for k
TimeFails(k) ==
  /\ k <= Len(systemTime)
  /\ systemTime' = Remove(systemTime, k)
  /\ retryOn' = RetryOnWithout(k)
  /\ serverTime' = -1
  /\ UNCHANGED <<recvWindow, now, drift, computed, syncInterval, ended, query,
                 security, optionsUrl, tries, generated, restVars, sockVars,
                 wsVars>>

\* a client with or without recvWindow, drift 0, no calibration running and
\* no request built, beside an idle call table and no manager at work
InitSign ==
  /\ recvWindow \in {"false", "5000"}
  /\ now = 0
  /\ drift = 0
  /\ systemTime = <<>>
  /\ serverTime = -1
  /\ computed = <<>>
  /\ syncInterval = FALSE
  /\ ended = FALSE
  /\ retryOn = 0
  /\ query = <<>>
  /\ security = "none"
  /\ optionsUrl = <<>>
  /\ tries = 0
  /\ generated = FALSE
  /\ handleDrift = TRUE
  /\ calls = [c \in CallIds |-> FreeCall]
  /\ build = "hb"
  /\ path = "literal"
  /\ forever = TRUE
  /\ ws = 0
  /\ nws = 0
  /\ tr = [w \in 1..MaxWS |-> [st |-> "none", op |-> 0, url |-> "none",
                                errL |-> FALSE, openL |-> FALSE, closeL |-> 0,
                                msgL |-> 0, hbL |-> FALSE]]
  /\ nops = 0
  /\ ops = [o \in 1..MaxOps |-> [url |-> "none", timer |-> FALSE, left |-> 0,
                                  promise |-> "none"]]
  /\ pendSync = 0
  /\ pendAuth = 0
  /\ callerTick = FALSE
  /\ handed = FALSE
  /\ isAlive = "undefined"
  /\ hbCur = FALSE
  /\ hbLeaked = 0
  /\ kaCur = FALSE
  /\ kaLeaked = 0
  /\ kaCalls = 0
  /\ closedByCaller = FALSE
  /\ checks = 0
  /\ heard = "none"
  /\ act = [h |-> "init", heard |-> "none", n |-> 0, cur |-> FALSE]
  /\ emitted = {}
  /\ opened = FALSE
  /\ WsIdle

NextSign ==
  \/ Tick
  \/ CalculateDrift
  \/ StartTimeSync
  \/ SyncTick
  \/ EndTimeSync
  \/ \E q \in CallerQueries, sec \in {"SIGNED", "API-KEY", "none"} :
       CallEndpoint(q, sec)
  \/ SkewResponse
  \/ \E k \in CalIds, s \in 0..MaxServerTime : TimeResponse(k, s)
  \/ \E k \in CalIds : TimeFails(k)

\* one request and the calibrations around it
SpecSign == InitSign /\ [][NextSign]_vars

(***************************************************************************)
(* BinanceRest: claims on the request that is built.                       *)
(***************************************************************************)
\* where the signature parameter starts in a URL, 0 when it has none
SignatureAt(u) ==
  IF \E i \in 1..Len(u) : u[i] = "&signature="
  THEN CHOOSE i \in 1..Len(u) : u[i] = "&signature=" ELSE 0

\* the keys of a serialized query string, in order
RECURSIVE KeysOf(_)
KeysOf(text) ==
  IF Len(text) < 3 THEN <<>>
  ELSE <<text[1]>> \o KeysOf(SubSeq(text, 5, Len(text)))

\* C14: the URL of every SIGNED request that is dispatched, first attempt or
\* re-execution, with recvWindow configured or not, ends with a signature
\* that is the MAC of exactly the text between '?' and '&signature=', and
\* that text lists the members of the query object in the object's order.
C14_SignatureCoversSentQuery ==
  (security = "SIGNED" /\ optionsUrl # <<>>) =>
    LET i    == SignatureAt(optionsUrl)
        sent == SubSeq(optionsUrl, 4, i - 1)
    IN  /\ i >= 4
        /\ SubSeq(optionsUrl, i + 1, Len(optionsUrl)) = Sign(sent)
        /\ sent = Stringify(query)
        /\ KeysOf(sent) = [j \in 1..Len(query) |-> query[j].k]
        /\ (recvWindow # "false") =>
             \E j \in 1..Len(query) :
               query[j] = [k |-> "recvWindow", v |-> recvWindow]
        /\ HasKey(query, "timestamp")

C14_Witness ==
  /\ security = "SIGNED"
  /\ recvWindow = "5000"
  /\ tries = 1
  /\ query[1] = [k |-> "recvWindow", v |-> "5000"]
  /\ Len(query) = 3
  /\ query[3].k = "timestamp"
  /\ query[3].v = ToString(now + drift)
  /\ drift # 0

\* the calculateDrift() whose time() was fulfilled in the step, 0 when none
\* was
Completed ==
  IF /\ serverTime' # -1
     /\ \E k \in 1..Len(systemTime) : systemTime' = Remove(systemTime, k)
  THEN CHOOSE k \in 1..Len(systemTime) : systemTime' = Remove(systemTime, k)
  ELSE 0

\* the timestamp member of a query object, "none" when it has none
Timestamp(q) ==
  IF HasKey(q, "timestamp")
  THEN q[CHOOSE j \in 1..Len(q) : q[j].k = "timestamp"].v
  ELSE "none"

\* C15 as stated: a completed calibration sets the drift to
\* S - (T0 + (T1 - T0)/2), the half taken exactly, and a timestamp generated
\* for a request with no preset timestamp is the local time plus the drift.
C15_DriftIsExactMidpoint ==
  [][/\ (serverTime' # -1) =>
          /\ Completed # 0
          /\ 2 * drift' = 2 * serverTime'
                          - (2 * systemTime[Completed] + (now - systemTime[Completed]))
     /\ (generated' /\ query' # query) =>
          Timestamp(query') = ToString(now + drift')]_vars

\* C15 as amended: a completed calibration sets the drift to
\* S - (T0 + floor((T1 - T0)/2)), an integer, and a timestamp generated for a
\* request with no preset timestamp is the local time plus the drift.
C15_DriftIsTruncatedMidpoint ==
  [][/\ (serverTime' # -1) =>
          /\ Completed # 0
          /\ systemTime[Completed] <= now
          /\ drift' = serverTime' - (systemTime[Completed]
                                     + ((now - systemTime[Completed]) \div 2))
     /\ (drift' # drift) => (drift' = 0 \/ serverTime' # -1)
     /\ (generated' /\ query' # query) =>
          Timestamp(query') = ToString(now + drift')]_vars

C15_Witness ==
  /\ computed = <<MaxServerTime>>
  /\ now = 1
  /\ systemTime = <<>>
  /\ drift = MaxServerTime
  /\ generated
  /\ tries = 0
  /\ Timestamp(query) = ToString(1 + MaxServerTime)

(***************************************************************************)
(* Socket: the connection manager.                                         *)
(***************************************************************************)
WsIds == 1..MaxWS
OpIds == 1..MaxOps

Min(a, b) == IF a < b THEN a ELSE b

\* a WebSocket object: its readyState and the listeners the manager put on it
\*   st      "none" (not created), "connecting", "open",
\*           "closing" (close() sent, frames may still arrive),
\*           "dead" (terminated, 'close' still to come), "closed"
\*   op      the retry operation whose attempt created it
\*   url     the address it was created on
\*   errL    the once('error') listener of connect() is still on
\*   openL   the once('open') listener of connect() is still on
\*   closeL  once('close', _reconnect) listeners
\*   msgL    on('message', _onMessageHandler) listeners
\*   hbL     a once('message', _heartbeat) listener is on
NoSocket ==
  [st |-> "none", op |-> 0, url |-> "none", errL |-> FALSE, openL |-> FALSE,
   closeL |-> 0, msgL |-> 0, hbL |-> FALSE]

\* a retry operation of one attemptConnect(path): the path of its closure,
\* whether its backoff timeout is pending, the retries a bounded policy has
\* left, and the promise attemptConnect returned ("none", "pending",
\* "resolved")
NoOp == [url |-> "none", timer |-> FALSE, left |-> 0, promise |-> "none"]

\* a WebSocket that has emitted 'close' emits nothing more: its listeners
\* are dropped from the record
ClosedSocket == [NoSocket EXCEPT !.st = "closed"]

\* the handler that ran last: its name, the frames heard before a heartbeat
\* check, and for a 'message' the number of calls of the message handler
\* and whether the frame came from the open current transport
NoAct == [h |-> "init", heard |-> "none", n |-> 0, cur |-> FALSE]

\* the Socket sources
Builds == {"hb", "lib", "old"}

\* this._path.contructor: the property is looked up under that name, which
\* neither a string nor the object built by onUserData defines
PathContructorAsMeant(p) == IF p = "auth" THEN "BinanceRest" ELSE "undefined"

PathContructor(p) == "undefined"

\* the test of _getPath() that sends the path through getAuthenticatedPath()
IsAuthenticatedPath(p) == PathContructor(p) = "BinanceRest"

\* the manager as _setupWebSocket leaves it: constructed, and connect()
\* called once, so that disconnect() has run on a manager without transport
\* or timer and the promise of _getPath() is pending
SockStart(b, p) ==
  /\ build = b
  /\ path = p
  /\ ws = 0
  /\ nws = 0
  /\ tr = [w \in WsIds |-> NoSocket]
  /\ nops = 0
  /\ ops = [o \in OpIds |-> NoOp]
  /\ pendSync = IF IsAuthenticatedPath(p) THEN 0 ELSE 1
  /\ pendAuth = IF IsAuthenticatedPath(p) THEN 1 ELSE 0
  /\ callerTick = FALSE
  /\ handed = FALSE
  /\ isAlive = "undefined"
  /\ hbCur = FALSE
  /\ hbLeaked = 0
  /\ kaCur = FALSE
  /\ kaLeaked = 0
  /\ kaCalls = 0
  /\ closedByCaller = FALSE
  /\ checks = 0
  /\ heard = "none"
  /\ act = NoAct
  /\ emitted = {}
  /\ opened = FALSE

\* one manager of either source, for a stream name or for the listen-key
\* object, beside an idle request executor
InitSock ==
  \E b \in Builds, p \in {"literal", "auth"} :
    /\ SockStart(b, p)
    /\ forever = TRUE
    /\ handleDrift = FALSE
    /\ calls = [c \in CallIds |-> FreeCall]
    /\ WsIdle
    /\ SignIdle

\* the manager's mutable state as one value, so that a handler that calls
\* other methods is the composition of their effects
Mgr ==
  [ws |-> ws, nws |-> nws, tr |-> tr, nops |-> nops, ops |-> ops,
   pendSync |-> pendSync, pendAuth |-> pendAuth, handed |-> handed,
   isAlive |-> isAlive,
   hbCur |-> hbCur, hbLeaked |-> hbLeaked, kaCur |-> kaCur,
   kaLeaked |-> kaLeaked, kaCalls |-> kaCalls, checks |-> checks,
   heard |-> heard, emitted |-> {}, opened |-> FALSE]

Commit(s, a) ==
  /\ ws' = s.ws
  /\ nws' = s.nws
  /\ tr' = s.tr
  /\ nops' = s.nops
  /\ ops' = s.ops
  /\ pendSync' = s.pendSync
  /\ pendAuth' = s.pendAuth
  /\ handed' = s.handed
  /\ isAlive' = s.isAlive
  /\ hbCur' = s.hbCur
  /\ hbLeaked' = s.hbLeaked
  /\ kaCur' = s.kaCur
  /\ kaLeaked' = s.kaLeaked
  /\ kaCalls' = s.kaCalls
  /\ checks' = s.checks
  /\ heard' = s.heard
  /\ emitted' = s.emitted
  /\ opened' = s.opened
  /\ act' = a
  /\ UNCHANGED <<build, path, forever, restVars, wsVars, signVars>>

Handler(name) == [NoAct EXCEPT !.h = name]

\* operation.retry(e): the next attempt is scheduled, always with
\* forever = true, else while retries are left; with none left the call
\* returns false, which its caller does not look at
Retry(s, o) ==
  IF forever THEN [s EXCEPT !.ops[o].timer = TRUE]
  ELSE IF s.ops[o].left > 0
       THEN [s EXCEPT !.ops[o].timer = TRUE, !.ops[o].left = @ - 1]
       ELSE s

\* a WebSocket that is shut before its handshake has ended reports that as
\* 'error' and 'close': the once('error') listener of connect() runs
AbortHandshake(s, w) ==
  LET s1 == IF s.tr[w].errL THEN Retry(s, s.tr[w].op) ELSE s
  IN  [s1 EXCEPT !.tr[w] = ClosedSocket]

\* WebSocket.close()
Close(s, w) ==
  IF s.tr[w].st = "connecting" THEN AbortHandshake(s, w)
  ELSE IF s.tr[w].st = "open" THEN [s EXCEPT !.tr[w].st = "closing"]
  ELSE s

\* WebSocket.terminate()
Terminate(s, w) ==
  IF s.tr[w].st = "connecting" THEN AbortHandshake(s, w)
  ELSE IF s.tr[w].st \in {"open", "closing"} THEN [s EXCEPT !.tr[w].st = "dead"]
  ELSE s

\* _.isObject(this._path)
IsObject(p) == p = "auth"

\* String(this._path), the value appended to the base URL when the path is
\* used as it is
PathText(p) == IF p = "auth" THEN "[object Object]" ELSE "literal"

\* clearTimeout(this.testHeartTimeout)
ClearHeartTimer(s) == [s EXCEPT !.hbCur = FALSE]

\* this.testHeartTimeout = setTimeout(this._testHeart.bind(this), ...): a
\* timer the handle named before stays pending
ArmHeartTimer(s) ==
  [s EXCEPT !.hbLeaked = IF s.hbCur THEN @ + 1 ELSE @, !.hbCur = TRUE]

\* flushKeepAlive(): clearInterval(intervalId)
FlushKeepAlive(s) == [s EXCEPT !.kaCur = FALSE]

\* intervalId = setInterval(...) in getAuthenticatedPath's .then
ArmKeepAlive(s) ==
  [s EXCEPT !.kaLeaked = IF s.kaCur THEN @ + 1 ELSE @, !.kaCur = TRUE]

\* what disconnect() does to the transport: terminate() in src/lib/ws.js,
\* close() in both modules of src/unnamed/part_000
ShutDown(s, w) == IF build = "lib" THEN Terminate(s, w) ELSE Close(s, w)

Disconnect(s) ==
  LET s1 == IF build = "lib" THEN s ELSE ClearHeartTimer(s)
      s2 == IF s1.ws # 0
            THEN ShutDown([s1 EXCEPT !.tr[s1.ws].closeL = 0], s1.ws)
            ELSE s1
  IN  IF IsObject(path) THEN FlushKeepAlive(s2) ELSE s2

ForceDisconnect(s) ==
  LET s1 == Disconnect(s)
  IN  IF s1.ws # 0 THEN Terminate(s1, s1.ws) ELSE s1

\* _getPath(): the promise settles in the microtask queue, or, when the
\* test on the path succeeds, when startUserDataStream has answered
GetPath(s) ==
  IF IsAuthenticatedPath(path)
  THEN [s EXCEPT !.pendAuth = @ + 1]
  ELSE [s EXCEPT !.pendSync = @ + 1]

Connect(s) == GetPath(Disconnect(s))

\* the path an attempt of the operation opens: the parameter of
\* attemptConnect, resolved once
AttemptUrlResolvedAgain(s, o) == "resolvedAgain"

AttemptUrl(s, o) == s.ops[o].url

\* the attempt function: this._ws = new WebSocket(path), with the once
\* listeners for 'error' and 'open'
NewSocket(s, o) ==
  LET w == s.nws + 1
  IN  [s EXCEPT !.nws = w, !.ws = w, !.opened = TRUE,
                !.tr[w] = [NoSocket EXCEPT !.st = "connecting", !.op = o,
                                           !.url = AttemptUrl(s, o),
                                           !.errL = TRUE, !.openL = TRUE]]

\* attemptConnect(path): retry.operation(...) and operation.attempt(fn),
\* which runs fn at once
AttemptConnect(s, url) ==
  LET o == s.nops + 1
  IN  NewSocket([s EXCEPT !.nops = o,
                          !.ops[o] = [NoOp EXCEPT !.url = url,
                                        !.left = IF forever THEN 0 ELSE MaxRetries,
                                        !.promise = "pending"]],
                o)

\* the isAlive value _onConnected stores
AliveOnConnect(a) == "true"

\* this._ws.on('message', this._onMessageHandler): the listeners after it
HandlerListenersAsBefore(n) == n

HandlerListeners(n) == n + 1

\* the second module of src/unnamed/part_000 arms no timer here (the one its
\* constructor armed was cleared by the disconnect() of the first connect())
\* and its once('message') listener is the unbound _heartbeat, which writes
\* isAlive on the WebSocket
OnConnected(s) ==
  LET s1 == [s EXCEPT !.tr[s.ws] = [@ EXCEPT !.msgL = HandlerListeners(@),
                                             !.closeL = @ + 1,
                                             !.hbL = (build = "hb") \/ @],
                      !.emitted = @ \cup {"connected"}]
  IN  IF build = "hb"
      THEN ArmHeartTimer([s1 EXCEPT !.isAlive = AliveOnConnect(@),
                                    !.checks = 0, !.heard = "none"])
      ELSE IF build = "old"
           THEN [s1 EXCEPT !.isAlive = AliveOnConnect(@)]
           ELSE s1

\* the close listener is this._reconnect.bind(this) in the heartbeat module
\* and this._reconnect in src/lib/ws.js and in the second module of
\* src/unnamed/part_000, where `this` is then the WebSocket
ReconnectBound == build = "hb"

Reconnect(s) == Connect([s EXCEPT !.emitted = @ \cup {"reconnect"}])

\* the test of _testHeart that decides for a reconnect
HeartStoppedNever(a) == FALSE

HeartStopped(a) == a = "false"

\* whether _testHeart puts a new once('message', _heartbeat) listener
RelistenNot == FALSE

Relisten == TRUE

\* the isAlive value a check that does not reconnect stores
AliveAfterCheckKept(a) == a

AliveAfterCheck(a) == "false"

TestHeart(s) ==
  IF s.ws = 0 THEN ArmHeartTimer(s)
  ELSE IF HeartStopped(s.isAlive) THEN Reconnect(s)
  ELSE ArmHeartTimer([s EXCEPT !.isAlive = AliveAfterCheck(@),
                               !.tr[s.ws].hbL = Relisten \/ @,
                               !.checks = Min(@ + 1, MaxChecks),
                               !.heard = "none"])

(***************************************************************************)
(* Socket: the steps.  The caller holds the Socket once the promise of     *)
(* _setupWebSocket has resolved.  A caller's call runs when no microtask   *)
(* is queued, or in the same synchronous run as the caller's previous      *)
(* call; timers and transport events run only when no microtask is queued. *)
(***************************************************************************)
CallerMayRun == handed /\ (pendSync = 0 \/ callerTick)

EventMayRun == pendSync = 0

\* bound: every pending connect() still finds a retry operation and a
\* WebSocket within the bounds
Room(n) ==
  /\ nops + pendSync + pendAuth + n <= MaxOps
  /\ nws + pendSync + pendAuth + n <= MaxWS

HasRoom == Room(1)

CallerConnect ==
  /\ CallerMayRun
  /\ HasRoom
  /\ LET s == Connect(Mgr)
     IN  /\ Commit(s, Handler("other"))
         /\ callerTick' = (s.pendSync > 0)
  /\ closedByCaller' = FALSE

CallerDisconnect ==
  /\ CallerMayRun
  /\ Commit(Disconnect(Mgr), Handler("other"))
  /\ callerTick' = (pendSync > 0)
  /\ closedByCaller' = TRUE

\* forceDisconnect(): src/lib/ws.js has none
CallerForceDisconnect ==
  /\ build # "lib"
  /\ CallerMayRun
  /\ Commit(ForceDisconnect(Mgr), Handler("other"))
  /\ callerTick' = (pendSync > 0)
  /\ closedByCaller' = TRUE

\* the promise of _getPath() is fulfilled and attemptConnect runs.  A path
\* that went through getAuthenticatedPath() is the listen key, and the
\* keep-alive interval was armed just before.
PathResolved ==
  /\ \E k \in {"sync", "auth"} :
       /\ IF k = "sync" THEN pendSync > 0 ELSE (pendAuth > 0 /\ EventMayRun)
       /\ LET s == IF k = "sync"
                   THEN AttemptConnect([Mgr EXCEPT !.pendSync = @ - 1],
                                       PathText(path))
                   ELSE AttemptConnect(
                          ArmKeepAlive([Mgr EXCEPT !.pendAuth = @ - 1]),
                          "listenKey")
          IN  Commit(s, Handler("other"))
  /\ callerTick' = FALSE
  /\ UNCHANGED closedByCaller

\* the pending timers of the manager and of its listen-key object: the
\* heartbeat timer the handle names (0) or one it no longer names (1), the
\* backoff timeout of a retry operation, the keep-alive interval
Timers ==
  (IF hbCur THEN {<<"heart", 0>>} ELSE {})
  \cup (IF hbLeaked > 0 THEN {<<"heart", 1>>} ELSE {})
  \cup {<<"retry", o>> : o \in {p \in OpIds : ops[p].timer}}
  \cup (IF kaCur \/ kaLeaked > 0 THEN {<<"keepAlive", 0>>} ELSE {})

\* the pending timer fires: _testHeart
HeartTimer(which) ==
  LET s0 == IF which = 0 THEN [Mgr EXCEPT !.hbCur = FALSE]
                             ELSE [Mgr EXCEPT !.hbLeaked = @ - 1]
  IN  /\ (isAlive = "false") => HasRoom
      /\ Commit(TestHeart(s0), [Handler("testHeart") EXCEPT !.heard = heard])

\* the backoff timeout of operation o fires: the attempt function runs again
RetryTimer(o) ==
  /\ nws < MaxWS
  /\ Commit(NewSocket([Mgr EXCEPT !.ops[o].timer = FALSE], o),
            Handler("other"))

\* the keep-alive interval fires: keepAliveUserDataStream is called
KeepAliveTick ==
  /\ kaCalls < MaxKeepAlive
  /\ Commit([Mgr EXCEPT !.kaCalls = @ + 1], Handler("other"))

TimerFires ==
  /\ EventMayRun
  /\ \E t \in Timers :
       IF t[1] = "heart" THEN HeartTimer(t[2])
       ELSE IF t[1] = "retry" THEN RetryTimer(t[2])
       ELSE KeepAliveTick
  /\ callerTick' = FALSE
  /\ UNCHANGED closedByCaller

\* 'open': the once listener of connect() runs _onConnected() and resolves
\* the promise of connect() with the manager
TransportOpen(w) ==
  /\ EventMayRun
  /\ tr[w].st = "connecting"
  /\ LET s0 == [Mgr EXCEPT !.tr[w] = [@ EXCEPT !.st = "open", !.openL = FALSE]]
         s1 == IF tr[w].openL
               THEN [OnConnected(s0) EXCEPT !.handed = TRUE,
                                            !.ops[tr[w].op].promise = "resolved"]
               ELSE s0
     IN  Commit(s1, Handler("other"))
  /\ callerTick' = FALSE
  /\ UNCHANGED closedByCaller

\* every once('close') listener runs; an unbound _reconnect throws on
\* this.connect, which the WebSocket does not have
RECURSIVE ReconnectTimes(_, _)
ReconnectTimes(n, s) == IF n = 0 THEN s ELSE ReconnectTimes(n - 1, Reconnect(s))

EmitClose(s, w) ==
  LET s0 == [s EXCEPT !.tr[w] = ClosedSocket]
  IN  IF ReconnectBound THEN ReconnectTimes(s.tr[w].closeL, s0) ELSE s0

\* 'error' and the 'close' that follows it: a failed handshake, or a failure
\* of an open connection; the once('error') listener of connect(), when
\* still on, calls operation.retry(e)
TransportError(w) ==
  /\ EventMayRun
  /\ tr[w].st \in {"connecting", "open"}
  /\ ReconnectBound => Room(tr[w].closeL)
  /\ LET s0 == IF tr[w].errL THEN Retry(Mgr, tr[w].op) ELSE Mgr
     IN  Commit(EmitClose(s0, w), Handler("error"))
  /\ callerTick' = FALSE
  /\ UNCHANGED closedByCaller

\* 'close' alone: the peer closed an open connection, or a close() or
\* terminate() has completed
TransportClose(w) ==
  /\ EventMayRun
  /\ tr[w].st \in {"open", "closing", "dead"}
  /\ ReconnectBound => Room(tr[w].closeL)
  /\ Commit(EmitClose(Mgr, w), Handler("close"))
  /\ callerTick' = FALSE
  /\ UNCHANGED closedByCaller

\* 'message': the handler listeners and the once _heartbeat listener run
TransportMessage(w) ==
  /\ EventMayRun
  /\ tr[w].st \in {"open", "closing"}
  /\ LET s0 == [Mgr EXCEPT
                  !.heard = IF w = ws THEN "cur"
                            ELSE IF @ = "none" THEN "old" ELSE @]
         s1 == IF tr[w].hbL
               THEN [s0 EXCEPT !.isAlive = "true", !.tr[w].hbL = FALSE]
               ELSE s0
     IN  Commit(s1, [h |-> "message", heard |-> "none", n |-> tr[w].msgL,
                     cur |-> (w = ws /\ tr[w].st = "open")])
  /\ callerTick' = FALSE
  /\ UNCHANGED closedByCaller

NextSock ==
  \/ CallerConnect
  \/ CallerDisconnect
  \/ CallerForceDisconnect
  \/ PathResolved
  \/ TimerFires
  \/ \E w \in WsIds : TransportOpen(w)
  \/ \E w \in WsIds : TransportError(w)
  \/ \E w \in WsIds : TransportClose(w)
  \/ \E w \in WsIds : TransportMessage(w)

\* one manager, its caller, its transports and its timers
Spec == InitSock /\ [][NextSock]_vars

NextRest ==
  \/ \E c \in CallIds, m \in {"cb", "promise"} : MakeRequest(c, m)
  \/ \E c \in CallIds, r \in Responses : RespondSkewRetry(c, r)
  \/ \E c \in CallIds, r \in Responses : RespondDeliver(c, r)

\* one manager whose retry policy is bounded: retryOptions has
\* forever = false and retries = MaxRetries
InitBounded ==
  \E b \in Builds, p \in {"literal", "auth"} :
    /\ SockStart(b, p)
    /\ forever = FALSE
    /\ handleDrift = FALSE
    /\ calls = [c \in CallIds |-> FreeCall]
    /\ WsIdle
    /\ SignIdle

SpecBounded == InitBounded /\ [][NextSock]_vars

\* the request executor alone, beside one idle manager
SpecRest == InitRest /\ [][NextRest]_vars

(***************************************************************************)
(* BinanceWS: the subscription methods and the message handler that        *)
(* _setupWebSocket registers on the manager.                               *)
(***************************************************************************)
StreamNames == {"btcusdt@trade", "ethusdt@trade"}

FrameIds == 1..MaxFrames

\* the text of an inbound frame: valid JSON for a single event or for the
\* {stream, data} envelope of a combined stream, or text that is not JSON
FrameTexts ==
  [json : {TRUE}, kind : {"event"}, stream : {"none"}, id : FrameIds]
  \cup [json : {TRUE}, kind : {"envelope"}, stream : StreamNames, id : FrameIds]
  \cup [json : {FALSE}, kind : {"text"}, stream : {"none"}, id : FrameIds]

\* JSON.parse(message) of a valid text: the object the text denotes
JsonParse(f) ==
  [kind |-> f.kind, stream |-> f.stream, id |-> f.id, parsed |-> TRUE,
   beaut |-> FALSE]

\* event = message: the text itself
RawText(f) ==
  [kind |-> "text", stream |-> "none", id |-> f.id, parsed |-> FALSE,
   beaut |-> FALSE]

\* event.data of an envelope
Data(v) == [v EXCEPT !.kind = "event", !.stream = "none"]

\* _beautifyResponse(data): an object with an e member is renamed by the
\* beautifier, any other value is returned as it is
BeautifyResponse(v) == IF v.kind = "event" THEN [v EXCEPT !.beaut = TRUE] ELSE v

\* the beautify branch: event.stream keeps the envelope and replaces its data
Beautified(v) ==
  IF v.kind = "envelope"
  THEN [v EXCEPT !.beaut = BeautifyResponse(Data(v)).beaut]
  ELSE BeautifyResponse(v)

\* the value handed to the subscriber's handler
HandlerEventUnwrapped(v) == IF v.kind = "envelope" THEN Data(v) ELSE v

HandlerEvent(v) == v

\* the catch block of the handler: debug('binanceLib') is a logger function
\* with no error member, so the call of debug.error throws there; src/lib/ws.js
\* logs with console.error when verbose is set
CatchLogsThrows(b) == b = "hb"

\* array.join('/')
RECURSIVE Join(_)
Join(q) ==
  IF Len(q) = 0 THEN <<>>
  ELSE IF Len(q) = 1 THEN q
  ELSE <<Head(q), "/">> \o Join(Tail(q))

\* _getPath(): (this._isCombinedPath ? this._combinedBaseUrl : this._baseUrl)
\* + path
GetPathUrl(combined, p) ==
  <<IF combined THEN "wss://stream.binance.com:9443/stream?streams="
                ELSE "wss://stream.binance.com:9443/ws/">> \o p

\* _setupWebSocket(eventHandler, path, isCombinedPath): one Socket is built,
\* given the handler, and connected
SetupWebSocket(p, combined) ==
  /\ nsockets = 0
  /\ names' = p
  /\ isCombinedPath' = combined
  /\ target' = GetPathUrl(combined, Join(p))
  /\ nsockets' = nsockets + 1
  /\ UNCHANGED <<beautify, frames, events, thrown, restVars, sockVars,
                 signVars>>

\* onTrade(symbol, eventHandler) and the other single-stream methods
OnStream(n) == SetupWebSocket(<<n>>, FALSE)

\* onCombinedStream(streams, eventHandler)
OnCombinedStream(q) == SetupWebSocket(q, TRUE)

\* the handler of socket.onMessage runs on one frame
OnMessage(f) ==
  /\ nsockets > 0
  /\ Len(frames) < MaxFrames
  /\ frames' = Append(frames, f)
  /\ IF ~f.json /\ CatchLogsThrows(build)
     THEN /\ thrown' = TRUE
          /\ UNCHANGED events
     ELSE LET event == IF f.json THEN JsonParse(f) ELSE RawText(f)
              out   == IF beautify THEN Beautified(event) ELSE event
          IN  /\ events' = Append(events, [of |-> Len(frames) + 1,
                                           ev |-> HandlerEvent(out)])
              /\ thrown' = FALSE
  /\ UNCHANGED <<beautify, isCombinedPath, names, target, nsockets, restVars,
                 sockVars, signVars>>

\* a BinanceWS of either source, with either beautify option, no subscription
\* made yet, beside an idle request executor and no manager at work
InitWS ==
  /\ build \in {"hb", "lib"}
  /\ beautify \in BOOLEAN
  /\ isCombinedPath = FALSE
  /\ names = <<>>
  /\ target = <<>>
  /\ nsockets = 0
  /\ frames = <<>>
  /\ events = <<>>
  /\ thrown = FALSE
  /\ handleDrift = FALSE
  /\ calls = [c \in CallIds |-> FreeCall]
  /\ path = "literal"
  /\ forever = TRUE
  /\ ws = 0
  /\ nws = 0
  /\ tr = [w \in WsIds |-> NoSocket]
  /\ nops = 0
  /\ ops = [o \in OpIds |-> NoOp]
  /\ pendSync = 0
  /\ pendAuth = 0
  /\ callerTick = FALSE
  /\ handed = FALSE
  /\ isAlive = "undefined"
  /\ hbCur = FALSE
  /\ hbLeaked = 0
  /\ kaCur = FALSE
  /\ kaLeaked = 0
  /\ kaCalls = 0
  /\ closedByCaller = FALSE
  /\ checks = 0
  /\ heard = "none"
  /\ act = NoAct
  /\ emitted = {}
  /\ opened = FALSE
  /\ SignIdle

\* the lists of at most MaxStreams stream names
StreamLists == UNION {[1..n -> StreamNames] : n \in 0..MaxStreams}

NextWS ==
  \/ \E n \in StreamNames : OnStream(n)
  \/ \E q \in StreamLists : OnCombinedStream(q)
  \/ \E f \in FrameTexts : OnMessage(f)

\* one subscription and the frames its handler is given
SpecWS == InitWS /\ [][NextWS]_vars

(***************************************************************************)
(* BinanceWS: claims.                                                      *)
(***************************************************************************)
\* the calls of the subscriber's handler made for frame number i
EventsOf(i) == {k \in 1..Len(events) : events[k].of = i}

\* the stream names a joined path holds, in order
RECURSIVE Split(_)
Split(q) ==
  IF Len(q) = 0 THEN <<>>
  ELSE IF Head(q) = "/" THEN Split(Tail(q))
  ELSE <<Head(q)>> \o Split(Tail(q))

CombinedTarget ==
  (nsockets > 0 /\ isCombinedPath) =>
    /\ nsockets = 1
    /\ Head(target) = "wss://stream.binance.com:9443/stream?streams="
    /\ Split(Tail(target)) = names
    /\ Len(target) = 1 + (IF Len(names) = 0 THEN 0 ELSE 2 * Len(names) - 1)

\* C12 as stated: a combined subscription opens one connection on the
\* combined base URL followed by the names joined with '/', and every event
\* delivered for an envelope frame is the inner data, not the envelope.
C12_CombinedDeliversInnerData ==
  /\ CombinedTarget
  /\ isCombinedPath =>
       \A k \in 1..Len(events) :
         frames[events[k].of].kind = "envelope" => events[k].ev.kind = "event"

\* C12 as amended: a combined subscription opens one connection on the
\* combined base URL followed by the names joined with '/', and every event
\* delivered for an envelope frame is the {stream, data} envelope itself,
\* with its stream name, its data beautified exactly when beautify is set.
C12_CombinedDeliversEnvelope ==
  /\ CombinedTarget
  /\ isCombinedPath =>
       \A i \in 1..Len(frames) :
         frames[i].kind = "envelope" =>
           /\ Cardinality(EventsOf(i)) = 1
           /\ \A k \in EventsOf(i) :
                /\ events[k].ev.kind = "envelope"
                /\ events[k].ev.stream = frames[i].stream
                /\ events[k].ev.id = frames[i].id
                /\ events[k].ev.beaut = beautify

C12_Witness ==
  /\ isCombinedPath
  /\ names = <<"btcusdt@trade", "ethusdt@trade">>
  /\ Len(target) = 4
  /\ beautify
  /\ Len(frames) = 2
  /\ frames[1].kind = "envelope" /\ frames[1].stream = "btcusdt@trade"
  /\ frames[2].kind = "envelope" /\ frames[2].stream = "ethusdt@trade"
  /\ Len(events) = 2

\* C16: every inbound frame that is not valid JSON has been delivered to the
\* subscriber's handler exactly once, as the raw text of the frame, with
\* beautification enabled or disabled, and the handler did not throw.
C16_MalformedDeliveredRaw ==
  \A i \in 1..Len(frames) :
    ~frames[i].json =>
      /\ Cardinality(EventsOf(i)) = 1
      /\ \A k \in EventsOf(i) : events[k].ev = RawText(frames[i])
      /\ (i = Len(frames)) => ~thrown

(***************************************************************************)
(* Socket: claims.                                                         *)
(***************************************************************************)
HbPending == hbLeaked + (IF hbCur THEN 1 ELSE 0)

PendingConnects == pendSync + pendAuth

Connected == ws # 0 /\ tr[ws].st = "open"

Live == {w \in WsIds : tr[w].st \in {"connecting", "open"}}

\* C2 as stated: when the first heartbeat timer after connecting fires and no
\* frame has arrived since the transport opened, the manager emits
\* 'reconnect', tears the transport down and calls connect() at that firing.
C2_ReconnectAtFirstSilentFiring ==
  [][(act'.h = "testHeart" /\ Connected /\ checks = 0 /\ heard = "none")
       => /\ "reconnect" \in emitted'
          /\ PendingConnects' = PendingConnects + 1]_vars

\* C2 as amended: the first heartbeat check after connecting never
\* reconnects, it keeps the transport and arms the next window; a check that
\* follows an earlier check with no inbound frame in between emits
\* 'reconnect', closes the transport, leaves no armed handle and calls
\* connect() at that firing.
C2_ReconnectAtSecondSilentCheck ==
  [][(act'.h = "testHeart") =>
       /\ (checks = 0) =>
            /\ "reconnect" \notin emitted'
            /\ PendingConnects' = PendingConnects
            /\ tr'[ws].st = tr[ws].st
            /\ hbCur'
            /\ HbPending' = HbPending
       /\ (checks >= 1 /\ heard = "none") =>
            /\ "reconnect" \in emitted'
            /\ PendingConnects' = PendingConnects + 1
            /\ tr'[ws].st \notin {"connecting", "open"}
            /\ ~hbCur']_vars

C2_Witness ==
  /\ act.h = "testHeart"
  /\ act.heard = "none"
  /\ checks = 1
  /\ "reconnect" \in emitted
  /\ tr[ws].st = "closing"
  /\ pendSync = 1

\* C3: while the current transport is open, a heartbeat timer that fires
\* after a frame arrived on it since the previous check (or since connecting)
\* emits no 'reconnect', calls no connect(), keeps the transport open and
\* arms exactly one new heartbeat timer.
C3_FrameKeepsConnection ==
  [][(act'.h = "testHeart" /\ Connected /\ heard = "cur") =>
       /\ "reconnect" \notin emitted'
       /\ PendingConnects' = PendingConnects
       /\ ws' = ws
       /\ tr'[ws].st = "open"
       /\ hbCur'
       /\ HbPending' = HbPending]_vars

C3_Witness ==
  /\ act.h = "testHeart"
  /\ act.heard = "cur"
  /\ checks >= 2
  /\ Connected
  /\ emitted = {}
  /\ hbCur

\* C4: one manager has at most one transport that is open or being opened
\* and at most one pending heartbeat timer.
C4_AtMostOneTransportAndTimer ==
  /\ Cardinality(Live) <= 1
  /\ HbPending <= 1

\* C5: after the caller's disconnect() or forceDisconnect(), and until the
\* caller calls connect(), no heartbeat timer and no backoff timer is
\* pending, no transport is created and no 'connected' or 'reconnect' event
\* is emitted.
C5_QuietAfterDisconnect ==
  closedByCaller =>
    /\ HbPending = 0
    /\ \A o \in OpIds : ~ops[o].timer
    /\ ~opened
    /\ emitted = {}

\* C6: when the open current transport emits 'close' and the caller has not
\* disconnected, the manager emits 'reconnect' and calls connect().
C6_CloseReconnects ==
  [][(act'.h = "close" /\ Connected /\ tr'[ws].st = "closed"
      /\ ~closedByCaller)
       => /\ "reconnect" \in emitted'
          /\ PendingConnects' > PendingConnects]_vars

C8_AuthenticatedUrl ==
  path = "auth" => \A o \in OpIds : ops[o].url \in {"none", "listenKey"}

\* the WebSocket objects of operation o that have not emitted 'close'
SocketsOf(o) == {w \in WsIds : tr[w].op = o}

\* operation o has used up a bounded policy: every attempt has failed, no
\* retry is left and none is scheduled
Exhausted(o) ==
  /\ ~forever
  /\ ops[o].promise # "none"
  /\ ops[o].left = 0
  /\ ~ops[o].timer
  /\ SocketsOf(o) = {}

\* C13: with a bounded retry policy, the promise of connect() is not rejected
\* while a retry is left or scheduled, and once the policy is exhausted it
\* does not stay pending: it has been settled, with the final error when no
\* attempt ever opened.
C13_ExhaustionSettlesConnect ==
  \A o \in OpIds :
    /\ (ops[o].left > 0 \/ ops[o].timer) => ops[o].promise # "rejected"
    /\ Exhausted(o) => ops[o].promise # "pending"

\* C17: in the heartbeat module, the promise of a connect() resolves only at
\* the 'open' event of a transport of that connect(), and when it resolves
\* the current transport is open with the message handler attached,
\* 'connected' has been emitted, a heartbeat timer is pending and the caller
\* holds the manager.
C17_ResolvesWhenConnected ==
  [][\A o \in OpIds :
       (build = "hb" /\ ops[o].promise = "pending"
        /\ ops'[o].promise = "resolved") =>
         /\ \E w \in WsIds : /\ tr[w].op = o
                             /\ tr[w].st = "connecting"
                             /\ tr'[w].st = "open"
         /\ ws' # 0
         /\ tr'[ws'].st = "open"
         /\ tr'[ws'].msgL >= 1
         /\ "connected" \in emitted'
         /\ hbCur'
         /\ handed']_vars

\* C18: the path of a connect() is resolved once, when its operation is
\* created, and never again: the attempt that follows a resolution creates
\* the operation and opens the resolved URL, and an attempt that retries an
\* existing operation opens that operation's URL and starts no resolution,
\* no listen-key request and no keep-alive interval.
C18_RetriesReuseResolvedUrl ==
  [][/\ \A o \in OpIds : ops[o].url # "none" => ops'[o].url = ops[o].url
     /\ (nws' = nws + 1) =>
          LET o == tr'[nws'].op
          IN  /\ o # 0
              /\ tr'[nws'].url = ops'[o].url
              /\ IF nops' = nops
                 THEN /\ ops[o].url # "none"
                      /\ tr'[nws'].url = ops[o].url
                      /\ PendingConnects' = PendingConnects
                      /\ kaCur' = kaCur
                      /\ kaLeaked' = kaLeaked
                 ELSE /\ nops' = nops + 1
                      /\ o = nops'
                      /\ PendingConnects' = PendingConnects - 1]_vars

C18_Witness ==
  /\ nops = 1
  /\ nws = 2
  /\ tr[2].st = "connecting"
  /\ tr[2].op = 1
  /\ tr[2].url = ops[1].url
  /\ ~ops[1].timer
  /\ act.h = "other"

\* C19 as stated: a heartbeat check that re-arms the timer saw a frame that
\* arrived since the previous check or since connecting; a check that saw no
\* frame does not re-arm.
C19_RearmOnlyAfterFrame ==
  [][(act'.h = "testHeart" /\ heard = "none") => ~hbCur']_vars

\* C19 as amended: the first check after connecting re-arms the timer with
\* or without a frame; every later check that re-arms saw a frame that
\* arrived since the previous check, and a later check that saw none does
\* not re-arm; a check that saw a frame of the current transport re-arms.
C19_RearmAfterFrameOrFirstCheck ==
  [][(act'.h = "testHeart") =>
       /\ hbCur' => (checks = 0 \/ heard # "none")
       /\ (checks = 0) => hbCur'
       /\ (Connected /\ heard = "cur") => hbCur']_vars

C19_Witness ==
  /\ act.h = "testHeart"
  /\ act.heard = "none"
  /\ checks = 1
  /\ hbCur
  /\ Connected
  /\ isAlive = "false"
  /\ emitted = {}

C21_RenewalsKeepRunning ==
  (path = "auth" /\ Connected /\ ~closedByCaller) => kaCur

\* C25: every frame that is handed to the message handler arrived on the
\* manager's current transport while that transport was open, neither shut
\* by disconnect() nor replaced by a reconnect, and is handed over once.
C25_OnlyCurrentTransportDelivers ==
  (act.h = "message" /\ act.n > 0) => (act.cur /\ act.n = 1)

\* C26: in the modules with a heartbeat, whenever the current transport is
\* open exactly one heartbeat timer is pending.
C26_OneHeartTimerWhileConnected ==
  (build # "lib" /\ Connected) => HbPending = 1

(***************************************************************************)
(* BinanceRest: claims on calibrations in flight together.                 *)
(***************************************************************************)
\* C22: the request of a clock-skew retry is dispatched again only in the
\* step in which the calibration the retry triggered completes, never while
\* it is pending, and the timestamp it then carries is the local time plus
\* the drift that calibration has just stored, whatever other calibrations
\* are in flight.
C22_RetryUsesRefreshedDrift ==
  [][(/\ optionsUrl # <<>>
      /\ (optionsUrl' # optionsUrl \/ query' # query \/ tries' # tries)) =>
       /\ tries = 0
       /\ tries' = 1
       /\ retryOn > 0
       /\ retryOn' = -1
       /\ serverTime' # -1
       /\ systemTime' = Remove(systemTime, retryOn)
       /\ drift' = serverTime' - (systemTime[retryOn]
                                  + ((now - systemTime[retryOn]) \div 2))
       /\ Timestamp(query') = ToString(now + drift')
       /\ optionsUrl' = BuildRequest(query', security).url]_vars

C22_Witness ==
  /\ security = "SIGNED"
  /\ tries = 1
  /\ serverTime # -1
  /\ systemTime # <<>>
  /\ drift # 0
  /\ Timestamp(query) = ToString(now + drift)

\* C24: every calibration that completes, alone or with others in flight,
\* stores the value it computed from its own start time, so that after any
\* completion the drift is the value of the calibration answered last (until
\* endTimeSync() zeroes it); nothing else changes the drift, and a request
\* issued meanwhile takes its timestamp from the drift stored at that moment.
C24_LastCalibrationWins ==
  [][/\ (serverTime' # -1) =>
          /\ Completed # 0
          /\ computed' = <<serverTime' - (systemTime[Completed]
                             + ((now - systemTime[Completed]) \div 2))>>
     /\ (computed' # <<>>) => drift' = computed'[1]
     /\ (drift' # drift) =>
          (serverTime' # -1 \/ (drift' = 0 /\ computed' = <<>>))
     /\ (optionsUrl = <<>> /\ optionsUrl' # <<>> /\ generated') =>
          Timestamp(query') = ToString(now + drift)]_vars

C24_Witness ==
  /\ serverTime # -1
  /\ systemTime # <<>>
  /\ computed = <<drift>>
  /\ drift # 0
  /\ generated
  /\ tries = 0
  /\ Timestamp(query) = ToString(now)

\* C27: once endTimeSync() has run, and until the caller calls
\* startTimeSync() or calculateDrift() again, no interval is live and the
\* drift is 0.
C27_DriftStaysZeroAfterEnd ==
  ended => (drift = 0 /\ ~syncInterval)

====
